---- MODULE Spec2Model ----
(***************************************************************************)
(* Model of app/server/core/file_processor.py: the table-name sanitizer,   *)
(* the record flattener, JSONL schema discovery and the three converters   *)
(* that materialize a table in the SQLite store.                            *)
(*                                                                          *)
(* Strings are sequences of one-character strings.  JSON values are tagged *)
(* tuples <<tag, payload>>.                                                 *)
(***************************************************************************)
EXTENDS Integers, Sequences, FiniteSets, TLC

VARIABLES
    raw,      \* sanitizer: the table_name argument
    seed,     \* sanitizer: the process's string-hash seed (PYTHONHASHSEED)
    out,      \* sanitizer: sanitize_table_name(raw)
    out2,     \* sanitizer: sanitize_table_name(out)
    other,    \* sanitizer: sanitize_table_name(raw) as another process returns it
    spc,      \* sanitizer: "in" | "once" | "twice" | "again"
    rec,      \* flattener: the record (a dict) handed to flatten_nested_dict
    flat,     \* flattener: the dict it returned
    fpc,      \* flattener: "in" | "done"
    store,    \* db/database.db: table name -> table, or NoTable
    prev,     \* the store as it was when the last convert_* call began
    call,     \* the last convert_* call: its arguments and its outcome
    calls     \* convert_* calls made so far

sanVars == <<raw, seed, out, out2, other, spc>>
flatVars == <<rec, flat, fpc>>
ingVars == <<store, prev, call, calls>>

vars == <<sanVars, flatVars, ingVars>>

(***************************************************************************)
(* Bounds of the model.                                                     *)
(***************************************************************************)
MaxRawLen == 3      \* longest short table name drawn (a long pad may follow)
MaxSeed == 1        \* hash seeds 0..MaxSeed
MaxListLen == 2     \* longest JSON array inside a record
MaxTopKeys == 2     \* most keys of a record at its top level
MaxLines == 2       \* most lines, array elements or CSV rows of one upload
MaxCalls == 2       \* most convert_* calls in one run of the server

(***************************************************************************)
(* Characters.                                                              *)
(***************************************************************************)
LowerLetters ==
    {"a","b","c","d","e","f","g","h","i","j","k","l","m",
     "n","o","p","q","r","s","t","u","v","w","x","y","z"}

UpperLetters ==
    {"A","B","C","D","E","F","G","H","I","J","K","L","M",
     "N","O","P","Q","R","S","T","U","V","W","X","Y","Z"}

Digits == {"0","1","2","3","4","5","6","7","8","9"}

\* Letters outside ASCII for which str.isalpha() is also true.
NonAsciiLetters == {"é"}

\* re class [a-zA-Z0-9_]
WordChar(c) == c \in LowerLetters \cup UpperLetters \cup Digits \cup {"_"}

\* str.isalpha() on one character
isalpha(c) == c \in LowerLetters \cup UpperLetters \cup NonAsciiLetters

\* The characters table names are drawn from.
RawChars == {"a", "T", "7", "_", ".", "-", " ", "é"}

RECURSIVE StringsUpTo(_, _)
StringsUpTo(S, n) ==
    IF n = 0 THEN {<<>>}
    ELSE LET shorter == StringsUpTo(S, n - 1)
         IN  shorter \cup {Append(s, c) : s \in shorter, c \in S}

(***************************************************************************)
(* sql_security.validate_identifier: the strict grammar check.              *)
(***************************************************************************)
IDENTIFIER_MAX_LENGTH == 64

validate_identifier(s) ==
    /\ Len(s) > 0
    /\ Len(s) <= IDENTIFIER_MAX_LENGTH
    /\ \A i \in 1..Len(s) : WordChar(s[i])
    /\ ~(s[1] \in Digits)

(***************************************************************************)
(* hash(str) % 100000 and its decimal formatting.                           *)
(***************************************************************************)
HASH_MODULUS == 100000

CharCode(c) ==
    CASE c = "a" -> 97 [] c = "T" -> 84 [] c = "7" -> 55 [] c = "_" -> 95
      [] c = "." -> 46 [] c = "-" -> 45 [] c = " " -> 32 [] c = "é" -> 233
      [] c = "x" -> 120 [] OTHER -> 63

\* Position-weighted sum of the character codes of s[lo..hi].
RECURSIVE Mix(_, _, _)
Mix(s, lo, hi) ==
    IF lo > hi THEN 0
    ELSE IF lo = hi THEN CharCode(s[lo]) * (2 * lo + 1)
    ELSE LET mid == (lo + hi) \div 2
         IN  Mix(s, lo, mid) + Mix(s, mid + 1, hi)

\* hash() of a str: 0 for the empty string, otherwise a value that depends on
\* the process's seed as well as on the characters.
PyHash(sd, s) ==
    IF s = <<>> THEN 0 ELSE (sd * 40503 + 7 + 31 * Mix(s, 1, Len(s))) % 1048576

DigitChar(d) == <<"0","1","2","3","4","5","6","7","8","9">>[d + 1]

RECURSIVE IntToStr(_)
IntToStr(n) ==
    IF n < 10 THEN <<DigitChar(n)>>
    ELSE Append(IntToStr(n \div 10), DigitChar(n % 10))

(***************************************************************************)
(* sanitize_table_name                                                      *)
(***************************************************************************)
HasDot(s) == \E i \in 1..Len(s) : s[i] = "."

LastDot(s) == CHOOSE i \in 1..Len(s) :
                  s[i] = "." /\ \A j \in (i + 1)..Len(s) : s[j] # "."

FirstDot(s) == CHOOSE i \in 1..Len(s) :
                   s[i] = "." /\ \A j \in 1..(i - 1) : s[j] # "."

\* faulty variant: split('.', 1)[0] in place of rsplit('.', 1)[0]
StripExtension_First(s) ==
    IF HasDot(s) THEN SubSeq(s, 1, FirstDot(s) - 1) ELSE s

\* lines 23-24
StripExtension(s) ==
    IF HasDot(s) THEN SubSeq(s, 1, LastDot(s) - 1) ELSE s

\* line 27
ReplaceBadChars(s) ==
    [i \in 1..Len(s) |-> IF WordChar(s[i]) THEN s[i] ELSE "_"]

\* faulty variant: the test for a leading underscore is dropped
EnsureLeading_NoUnderscoreTest(s) ==
    IF s # <<>> /\ ~isalpha(s[1]) THEN <<"_">> \o s ELSE s

\* lines 30-31
EnsureLeading(s) ==
    IF s # <<>> /\ ~isalpha(s[1]) /\ s[1] # "_" THEN <<"_">> \o s ELSE s

TABLE_TOKEN == <<"t","a","b","l","e">>

\* lines 34-35
DefaultIfEmpty(s) == IF s = <<>> THEN TABLE_TOKEN ELSE s

\* line 42
FallbackName(sd, stripped) ==
    TABLE_TOKEN \o <<"_">> \o IntToStr(PyHash(sd, stripped) % HASH_MODULUS)

\* faulty variant: the SQLSecurityError is swallowed and the name kept
sanitize_table_name_NoFallback(sd, table_name) ==
    DefaultIfEmpty(EnsureLeading(ReplaceBadChars(StripExtension(table_name))))

sanitize_table_name(sd, table_name) ==
    LET stripped == StripExtension(table_name)
        sanitized == DefaultIfEmpty(EnsureLeading(ReplaceBadChars(stripped)))
    IN  IF validate_identifier(sanitized)
        THEN sanitized
        ELSE FallbackName(sd, stripped)

(***************************************************************************)
(* JSON values: <<"s", v>> a string, number or boolean, <<"n", "">> null,   *)
(* <<"l", items>> an array, <<"d", pairs>> an object whose pairs are        *)
(* <<key, value>> in insertion order, keys distinct.  A Python dict is the  *)
(* same sequence of pairs.                                                  *)
(***************************************************************************)
Scalar(v) == <<"s", v>>
Null == <<"n", "">>
List(items) == <<"l", items>>
Dict(pairs) == <<"d", pairs>>

Tag(v) == v[1]
Payload(v) == v[2]

Keys(pairs) == {pairs[i][1] : i \in DOMAIN pairs}
KeyList(pairs) == [i \in DOMAIN pairs |-> pairs[i][1]]
HasKey(pairs, k) == \E i \in DOMAIN pairs : pairs[i][1] = k
Lookup(pairs, k) == pairs[CHOOSE i \in DOMAIN pairs : pairs[i][1] = k][2]

\* d[k] = v on a dict: a present key keeps its place and takes the new value.
DictSet(pairs, k, v) ==
    IF HasKey(pairs, k)
    THEN [i \in DOMAIN pairs |-> IF pairs[i][1] = k THEN <<k, v>> ELSE pairs[i]]
    ELSE Append(pairs, <<k, v>>)

\* dict(items)
RECURSIVE DictFromItems(_, _)
DictFromItems(acc, items) ==
    IF items = <<>> THEN acc
    ELSE DictFromItems(DictSet(acc, Head(items)[1], Head(items)[2]), Tail(items))

(***************************************************************************)
(* constants.py                                                             *)
(***************************************************************************)
NESTED_FIELD_DELIMITER == <<"_", "_">>
LIST_INDEX_DELIMITER == <<"_">>

(***************************************************************************)
(* flatten_nested_dict                                                      *)
(***************************************************************************)
\* line 208
NewKey(parent_key, k) ==
    IF parent_key # <<>> THEN parent_key \o NESTED_FIELD_DELIMITER \o k ELSE k

\* faulty variant: list indices counted from one
ListKey_OneBased(new_key, i) == new_key \o LIST_INDEX_DELIMITER \o IntToStr(i + 1)

\* line 216
ListKey(new_key, i) == new_key \o LIST_INDEX_DELIMITER \o IntToStr(i)

RECURSIVE FlattenItems(_, _), FlattenList(_, _, _)

\* lines 207-228: the items one pass over data.items() collects
FlattenItems(data, parent_key) ==
    IF data = <<>> THEN <<>>
    ELSE LET k == Head(data)[1]
             v == Head(data)[2]
             new_key == NewKey(parent_key, k)
             here ==
                 CASE Tag(v) = "d" ->
                          DictFromItems(<<>>, FlattenItems(Payload(v), new_key))
                   [] Tag(v) = "l" -> FlattenList(Payload(v), new_key, 0)
                   [] Tag(v) = "n" -> <<<<new_key, Null>>>>
                   [] OTHER -> <<<<new_key, v>>>>
         IN  here \o FlattenItems(Tail(data), parent_key)

\* lines 215-222: the elements of one list, from index i on
FlattenList(items, new_key, i) ==
    IF items = <<>> THEN <<>>
    ELSE LET item == Head(items)
             list_key == ListKey(new_key, i)
             here ==
                 IF Tag(item) = "d"
                 THEN DictFromItems(<<>>, FlattenItems(Payload(item), list_key))
                 ELSE <<<<list_key, item>>>>
         IN  here \o FlattenList(Tail(items), new_key, i + 1)

\* line 230
flatten_nested_dict(data, parent_key) ==
    DictFromItems(<<>>, FlattenItems(data, parent_key))

(***************************************************************************)
(* Column-name cleaning (lines 58, 130, 351):                               *)
(* col.lower().replace(' ', '_').replace('-', '_')                          *)
(***************************************************************************)
UpperSeq == <<"A","B","C","D","E","F","G","H","I","J","K","L","M",
              "N","O","P","Q","R","S","T","U","V","W","X","Y","Z">>
LowerSeq == <<"a","b","c","d","e","f","g","h","i","j","k","l","m",
              "n","o","p","q","r","s","t","u","v","w","x","y","z">>

lower(c) ==
    IF c \in UpperLetters
    THEN LowerSeq[CHOOSE i \in DOMAIN UpperSeq : UpperSeq[i] = c]
    ELSE c

CleanColumnName(col) ==
    [i \in DOMAIN col |->
        IF lower(col[i]) \in {" ", "-"} THEN "_" ELSE lower(col[i])]

CleanColumns(cols) == [i \in DOMAIN cols |-> CleanColumnName(cols[i])]

(***************************************************************************)
(* The store.  A table is its column names, in order, and its rows, each a  *)
(* sequence of cells aligned with the columns.                              *)
(***************************************************************************)
NoTable == [cols |-> <<>>, rows |-> <<>>, exists |-> FALSE]
Table(cols, rows) == [cols |-> cols, rows |-> rows, exists |-> TRUE]

HasDuplicates(q) == \E i, j \in DOMAIN q : i < j /\ q[i] = q[j]

\* sqlite3 binds str, int, float, bool and None; a list or a dict is refused.
Bindable(v) == Tag(v) \in {"s", "n"}

\* faulty variant: if_exists='append'
to_sql_Append(db, table_name, cols, rows) ==
    IF db[table_name].exists
    THEN [ok |-> TRUE,
          db |-> [db EXCEPT ![table_name] =
                     Table(db[table_name].cols, db[table_name].rows \o rows)]]
    ELSE [ok |-> TRUE, db |-> [db EXCEPT ![table_name] = Table(cols, rows)]]

\* df.to_sql(table_name, conn, if_exists='replace', index=False)
\* (lines 64, 136, 357).  The existing table is dropped first.  CREATE TABLE
\* fails on an empty or repeating column list, and nothing is created; the
\* INSERT fails on a cell that cannot be bound, and is rolled back, leaving
\* the new table without rows.
to_sql(db, table_name, cols, rows) ==
    IF cols = <<>> \/ HasDuplicates(cols)
    THEN [ok |-> FALSE, db |-> [db EXCEPT ![table_name] = NoTable]]
    ELSE IF \E r \in DOMAIN rows : \E c \in DOMAIN rows[r] :
                ~Bindable(rows[r][c])
    THEN [ok |-> FALSE, db |-> [db EXCEPT ![table_name] = Table(cols, <<>>)]]
    ELSE [ok |-> TRUE, db |-> [db EXCEPT ![table_name] = Table(cols, rows)]]

SAMPLE_LIMIT == 5

\* lines 66-103, 138-175, 359-396: schema, sample and count read back through
\* execute_query_safely, which validates the table identifier first.
ReadBack(db, table_name) ==
    IF ~validate_identifier(table_name)
    THEN [ok |-> FALSE, columns |-> <<>>, row_count |-> 0, sample |-> <<>>]
    ELSE LET t == db[table_name]
             n == IF Len(t.rows) < SAMPLE_LIMIT THEN Len(t.rows)
                  ELSE SAMPLE_LIMIT
         IN  [ok |-> TRUE, columns |-> t.cols, row_count |-> Len(t.rows),
              sample |-> SubSeq(t.rows, 1, n)]

(***************************************************************************)
(* JSONL content: decodable or not as UTF-8, and its lines after            *)
(* content.strip().split('\n') and line.strip(): a blank line, a line that  *)
(* json.loads rejects, or a line that decodes to a JSON value.              *)
(***************************************************************************)
BlankLine == <<"blank", "">>
BadLine == <<"bad", "">>
JsonLine(v) == <<"json", v>>

IsObjectLine(line) == line[1] = "json" /\ Tag(line[2]) = "d"

\* The lines that reach `record = json.loads(line)` with a dict, in order.
RECURSIVE ObjectsOf(_)
ObjectsOf(lines) ==
    IF lines = <<>> THEN <<>>
    ELSE IF IsObjectLine(Head(lines))
         THEN <<Payload(Head(lines)[2])>> \o ObjectsOf(Tail(lines))
         ELSE ObjectsOf(Tail(lines))

\* collect_all_jsonl_fields, lines 248-281
collect_all_jsonl_fields(content) ==
    IF ~content.utf8
    THEN [ok |-> FALSE, fields |-> {}]
    ELSE LET objs == ObjectsOf(content.lines)
             all_fields == UNION {Keys(flatten_nested_dict(objs[i], <<>>)) :
                                     i \in DOMAIN objs}
         IN  IF Len(objs) = 0
             THEN [ok |-> FALSE, fields |-> {}]
             ELSE [ok |-> TRUE, fields |-> all_fields]

\* The orders in which iterating a set can yield its elements.
RECURSIVE Orders(_)
Orders(S) ==
    IF S = {} THEN {<<>>}
    ELSE UNION {{<<x>> \o q : q \in Orders(S \ {x})} : x \in S}

\* faulty variant: only the record's own fields are kept
complete_record_OwnOnly(flattened, order) ==
    [i \in DOMAIN flattened |-> flattened[i][2]]

\* line 338: {field: flattened.get(field, None) for field in all_fields}
complete_record(flattened, order) ==
    [i \in DOMAIN order |->
        IF HasKey(flattened, order[i]) THEN Lookup(flattened, order[i])
        ELSE Null]

\* lines 323-342
JsonlRecords(content, order) ==
    LET objs == ObjectsOf(content.lines)
    IN  [i \in DOMAIN objs |->
            complete_record(flatten_nested_dict(objs[i], <<>>), order)]

(***************************************************************************)
(* pd.DataFrame(data) on a decoded JSON array (line 127).                   *)
(***************************************************************************)
\* The keys of a list of dicts, first seen first.
RECURSIVE FirstSeenKeys(_, _)
FirstSeenKeys(acc, dicts) ==
    IF dicts = <<>> THEN acc
    ELSE LET ks == KeyList(Payload(Head(dicts)))
             fresh == SelectSeq(ks, LAMBDA k : \A i \in DOMAIN acc : acc[i] # k)
         IN  FirstSeenKeys(acc \o fresh, Tail(dicts))

\* faulty variant: elements that are not objects are dropped and the rest is kept
DataFrameOfJson_ObjectsOnly(data) ==
    LET dicts == SelectSeq(data, LAMBDA v : Tag(v) = "d")
        cols == FirstSeenKeys(<<>>, dicts)
    IN  [kind |-> IF cols = <<>> THEN "empty" ELSE "frame",
         cols |-> cols,
         rows |-> [i \in DOMAIN dicts |->
                     [j \in DOMAIN cols |->
                         IF HasKey(Payload(dicts[i]), cols[j])
                         THEN Lookup(Payload(dicts[i]), cols[j])
                         ELSE Null]]]

\* "frame": a frame with string columns; "raise": the constructor raises, or
\* the columns are integers and col.lower() raises (line 130); "empty": a
\* frame without columns.
DataFrameOfJson(data) ==
    IF Tag(data[1]) = "d"
    THEN IF \A i \in DOMAIN data : Tag(data[i]) = "d"
         THEN LET cols == FirstSeenKeys(<<>>, data)
              IN  [kind |-> IF cols = <<>> THEN "empty" ELSE "frame",
                   cols |-> cols,
                   rows |-> [i \in DOMAIN data |->
                               [j \in DOMAIN cols |->
                                   IF HasKey(Payload(data[i]), cols[j])
                                   THEN Lookup(Payload(data[i]), cols[j])
                                   ELSE Null]]]
         ELSE [kind |-> "raise", cols |-> <<>>, rows |-> <<>>]
    ELSE IF Tag(data[1]) = "l"
              /\ \A i \in DOMAIN data :
                     Tag(data[i]) \in {"l", "d"} /\ Payload(data[i]) = <<>>
         THEN [kind |-> "empty", cols |-> <<>>,
               rows |-> [i \in DOMAIN data |-> <<>>]]
         ELSE [kind |-> "raise", cols |-> <<>>, rows |-> <<>>]

(***************************************************************************)
(* The three converters.  Each call is one step: the shared `except`        *)
(* clause (lines 105, 177, 398) turns every failure into one Exception.     *)
(***************************************************************************)
NoCall ==
    [fmt |-> "none", name |-> <<>>, table |-> <<>>, content |-> [none |-> TRUE],
     order |-> <<>>, ok |-> FALSE, columns |-> <<>>, row_count |-> 0,
     sample |-> <<>>]

\* The call's record: what was asked, and the summary returned on success.
CallRecord(fmt, name, table, content, order, ok, rb) ==
    [fmt |-> fmt, name |-> name, table |-> table, content |-> content,
     order |-> order, ok |-> ok,
     columns |-> IF ok THEN rb.columns ELSE <<>>,
     row_count |-> IF ok THEN rb.row_count ELSE 0,
     sample |-> IF ok THEN rb.sample ELSE <<>>]

\* The call raised before df.to_sql: the store is as it was.
Raised(fmt, name, table, content) ==
    /\ store' = store
    /\ call' = CallRecord(fmt, name, table, content, <<>>, FALSE, NoCall)

\* df.to_sql and the read-back that follows it.
Materialize(fmt, name, table, content, order, cols, rows) ==
    LET w == to_sql(store, table, cols, rows)
        rb == ReadBack(w.db, table)
    IN  /\ store' = w.db
        /\ call' = CallRecord(fmt, name, table, content, order,
                              w.ok /\ rb.ok, rb)

Begin(limit) ==
    /\ calls < limit
    /\ calls' = calls + 1
    /\ prev' = store
    /\ UNCHANGED <<sanVars, flatVars>>

\* convert_jsonl_to_sqlite, lines 315-399
convert_jsonl_to_sqlite(Names, Contents, limit) ==
    /\ Begin(limit)
    /\ \E name \in Names, content \in Contents :
          LET table == sanitize_table_name(seed, name)
              found == collect_all_jsonl_fields(content)
          IN  IF ~found.ok
              THEN Raised("jsonl", name, table, content)
              ELSE \E order \in Orders(found.fields) :
                      Materialize("jsonl", name, table, content, order,
                                  CleanColumns(order),
                                  JsonlRecords(content, order))

\* convert_json_to_sqlite, lines 112-178.  The content says whether
\* json.loads (line 117) decodes the bytes, and to which value.
convert_json_to_sqlite(Names, Contents, limit) ==
    /\ Begin(limit)
    /\ \E name \in Names, content \in Contents :
          LET table == sanitize_table_name(seed, name)
              data == content.value
          IN  IF ~content.decoded \/ Tag(data) # "l" \/ Payload(data) = <<>>
              THEN Raised("json", name, table, content)
              ELSE LET df == DataFrameOfJson(Payload(data))
                   IN  IF df.kind = "raise"
                       THEN Raised("json", name, table, content)
                       ELSE Materialize("json", name, table, content, df.cols,
                                        CleanColumns(df.cols), df.rows)

\* convert_csv_to_sqlite, lines 50-106.  The content is what pd.read_csv
\* makes of the bytes: a header of distinct names and the rows under it, or
\* nothing when read_csv raises.
convert_csv_to_sqlite(Names, Contents, limit) ==
    /\ Begin(limit)
    /\ \E name \in Names, content \in Contents :
          LET table == sanitize_table_name(seed, name)
          IN  IF ~content.parsed
              THEN Raised("csv", name, table, content)
              ELSE Materialize("csv", name, table, content, content.header,
                               CleanColumns(content.header), content.rows)

(***************************************************************************)
(* Records drawn for the flattener.                                         *)
(***************************************************************************)
RECURSIVE SeqsUpTo(_, _)
SeqsUpTo(S, n) ==
    IF n = 0 THEN {<<>>}
    ELSE LET shorter == SeqsUpTo(S, n - 1)
         IN  shorter \cup {Append(q, x) : q \in shorter, x \in S}

\* Dicts of at most n entries, keys from K (distinct), values from V.
RECURSIVE DictsUpTo(_, _, _)
DictsUpTo(K, V, n) ==
    IF n = 0 THEN {<<>>}
    ELSE LET smaller == DictsUpTo(K, V, n - 1)
         IN  smaller \cup
             {Append(d, <<k, v>>) :
                  <<d, k>> \in {x \in smaller \X K : ~HasKey(x[1], x[2])}, v \in V}

Leaves == {Scalar("x"), Null}
InnerKeys == {<<"b">>}
InnerDicts == {Dict(d) : d \in DictsUpTo(InnerKeys, {Scalar("y")}, 1)}
ListElements == {Scalar("x"), Dict(<<<<<<"b">>, Scalar("y")>>>>)}
NestedLists == {List(<<List(<<Scalar("x")>>)>>), List(<<Scalar("x"), List(<<>>)>>)}
Lists == {List(q) : q \in SeqsUpTo(ListElements, MaxListLen)} \cup NestedLists
TopKeys == {<<"a">>, <<"a", "_", "0">>, <<"a", "_", "_", "b">>}
TopValues == Leaves \cup Lists \cup InnerDicts
Records == DictsUpTo(TopKeys, TopValues, MaxTopKeys)

SanIdle ==
    /\ raw = <<>>
    /\ seed = 0
    /\ out = <<>>
    /\ out2 = <<>>
    /\ other = <<>>
    /\ spc = "idle"

FlatIdle ==
    /\ rec = <<>>
    /\ flat = <<>>
    /\ fpc = "idle"

IngIdle ==
    /\ store = <<>>
    /\ prev = <<>>
    /\ call = NoCall
    /\ calls = 0

FlatInit ==
    /\ SanIdle
    /\ IngIdle
    /\ rec \in Records
    /\ flat = <<>>
    /\ fpc = "in"

\* one call flatten_nested_dict(rec)
Flatten ==
    /\ fpc = "in"
    /\ flat' = flatten_nested_dict(rec, <<>>)
    /\ fpc' = "done"
    /\ UNCHANGED <<rec, sanVars, ingVars>>

(***************************************************************************)
(* Table names drawn: every short string, alone or followed by a pad that   *)
(* takes it past the identifier length bound.                               *)
(***************************************************************************)
LongPad == [i \in 1..IDENTIFIER_MAX_LENGTH |-> "x"]

RawNames ==
    LET short == StringsUpTo(RawChars, MaxRawLen)
    IN  short \cup {s \o LongPad : s \in short}

Seeds == 0..MaxSeed

SanInit ==
    /\ FlatIdle
    /\ IngIdle
    /\ raw \in RawNames
    /\ seed \in Seeds
    /\ out = <<>>
    /\ out2 = <<>>
    /\ other = <<>>
    /\ spc = "in"

\* one call of sanitize_table_name on the caller's name
Sanitize ==
    /\ spc = "in"
    /\ out' = sanitize_table_name(seed, raw)
    /\ spc' = "once"
    /\ UNCHANGED <<raw, seed, out2, other, flatVars, ingVars>>

\* a second call, on the first call's result
Resanitize ==
    /\ spc = "once"
    /\ \E sd \in Seeds : out2' = sanitize_table_name(sd, out)
    /\ spc' = "twice"
    /\ UNCHANGED <<raw, seed, out, other, flatVars, ingVars>>

\* the same name sanitized once more, in a process of its own (any hash seed)
SanitizeElsewhere ==
    /\ spc = "once"
    /\ \E sd \in Seeds : other' = sanitize_table_name(sd, raw)
    /\ spc' = "again"
    /\ UNCHANGED <<raw, seed, out, out2, flatVars, ingVars>>

SanNext == Sanitize \/ Resanitize \/ SanitizeElsewhere

SpecSanitize == SanInit /\ [][SanNext]_vars

FlatNext == Flatten

SpecFlatten == FlatInit /\ [][FlatNext]_vars

(***************************************************************************)
(* Uploads drawn for the converters.                                        *)
(***************************************************************************)
Obj(pairs) == Dict(pairs)
F(k, v) == <<k, v>>

KeyA == <<"a">>
KeyB == <<"b">>
KeyUpperA == <<"A">>
KeySemicolon == <<"a", ";">>
KeyHyphen == <<"B", "-", "c">>
KeyDropTable == <<"D", "R", "O", "P", " ", "T", "A", "B", "L", "E">>

Objects ==
    { Obj(<<>>),
      Obj(<<F(KeyA, Scalar("x"))>>),
      Obj(<<F(KeyB, Scalar("y"))>>),
      Obj(<<F(KeyA, Null), F(KeyB, Scalar("x"))>>),
      Obj(<<F(KeyUpperA, Scalar("x")), F(KeyA, Scalar("y"))>>),
      Obj(<<F(KeyDropTable, Scalar("x"))>>),
      Obj(<<F(KeySemicolon, Scalar("x"))>>),
      Obj(<<F(KeyHyphen, Scalar("x"))>>),
      Obj(<<F(KeyA, Obj(<<F(KeyB, Scalar("x"))>>))>>),
      Obj(<<F(KeyA, List(<<Scalar("x"), Scalar("y")>>))>>),
      Obj(<<F(KeyA, List(<<List(<<Scalar("x")>>)>>))>>),
      Obj(<<F(KeyA, List(<<>>))>> ) }

NonObjects == {Scalar("x"), Null, List(<<>>), List(<<Scalar("x")>>)}

JsonlLines == {BlankLine, BadLine} \cup {JsonLine(v) : v \in Objects}
                  \cup {JsonLine(Scalar("x")), JsonLine(List(<<Scalar("x")>>))}

JsonlContents ==
    {[utf8 |-> TRUE, lines |-> q] : q \in SeqsUpTo(JsonlLines, MaxLines)}
        \cup {[utf8 |-> FALSE, lines |-> <<>>]}

JsonValue(v) == [decoded |-> TRUE, value |-> v]
BadJson == [decoded |-> FALSE, value |-> Null]

JsonContents ==
    {JsonValue(List(q)) : q \in SeqsUpTo(Objects \cup NonObjects, MaxLines)}
        \cup {JsonValue(Scalar("x")), JsonValue(Obj(<<F(KeyA, Scalar("x"))>>)),
              BadJson}

CsvHeaders == {<<KeyA>>, <<KeyUpperA, KeyB>>, <<KeyHyphen, <<"b", " ", "c">>>>}

CsvContents ==
    {[parsed |-> TRUE, header |-> h, rows |-> q] :
        <<h, q>> \in {x \in CsvHeaders \X SeqsUpTo(SeqsUpTo({Scalar("x"), Null}, 2),
                                                   MaxLines) :
                         \A i \in DOMAIN x[2] : Len(x[2][i]) = Len(x[1])}}
        \cup {[parsed |-> FALSE, header |-> <<>>, rows |-> <<>>]}

IngestNames == {<<"T">>, <<"T", ".", "a">>, <<"7">>}

TableNames == {sanitize_table_name(sd, n) : sd \in Seeds, n \in IngestNames}

IngInit ==
    /\ SanIdle
    /\ FlatIdle
    /\ store = [t \in TableNames |-> NoTable]
    /\ prev = store
    /\ call = NoCall
    /\ calls = 0

\* One upload of any kind into an empty store.
IngestNext ==
    \/ convert_csv_to_sqlite(IngestNames, CsvContents, 1)
    \/ convert_json_to_sqlite(IngestNames, JsonContents, 1)
    \/ convert_jsonl_to_sqlite(IngestNames, JsonlContents, 1)

SpecIngest == IngInit /\ [][IngestNext]_vars

\* The uploads drawn when calls follow one another.
FewJsonl ==
    {[utf8 |-> TRUE, lines |-> q] :
        q \in { <<JsonLine(Obj(<<F(KeyA, Scalar("x"))>>))>>,
                <<JsonLine(Obj(<<F(KeyB, Scalar("y"))>>)), BadLine,
                  JsonLine(Obj(<<F(KeyA, Scalar("x"))>>))>>,
                <<BadLine>>,
                <<JsonLine(Obj(<<F(KeyUpperA, Scalar("x")),
                                 F(KeyA, Scalar("y"))>>))>>,
                <<JsonLine(Obj(<<F(KeyA, List(<<List(<<Scalar("x")>>)>>))>>))>> }}

FewJson ==
    { JsonValue(List(<<Obj(<<F(KeyB, Scalar("y"))>>)>>)),
      JsonValue(List(<<Obj(<<F(KeyA, Scalar("x"))>>), Obj(<<F(KeyB, Null)>>)>>)),
      JsonValue(List(<<Scalar("x")>>)) }

FewCsv ==
    { [parsed |-> TRUE, header |-> <<KeyA>>, rows |-> <<<<Scalar("y")>>>>],
      [parsed |-> TRUE, header |-> <<KeyUpperA, KeyB>>, rows |-> <<>>],
      [parsed |-> FALSE, header |-> <<>>, rows |-> <<>>] }

\* Uploads one after another into the same store.
Next ==
    \/ convert_csv_to_sqlite(IngestNames, FewCsv, MaxCalls)
    \/ convert_json_to_sqlite(IngestNames, FewJson, MaxCalls)
    \/ convert_jsonl_to_sqlite(IngestNames, FewJsonl, MaxCalls)

Spec == IngInit /\ [][Next]_vars

(***************************************************************************)
(* Claims about sanitize_table_name.                                        *)
(***************************************************************************)
AsciiLetters == LowerLetters \cup UpperLetters

\* The identifier grammar: non-empty, only [A-Za-z0-9_], a letter or an
\* underscore first, within the length bound.
IsIdentifier(s) ==
    /\ s # <<>>
    /\ \A i \in DOMAIN s : s[i] \in AsciiLetters \cup Digits \cup {"_"}
    /\ s[1] \in AsciiLetters \cup {"_"}
    /\ Len(s) <= IDENTIFIER_MAX_LENGTH

StartsWith(s, p) == Len(s) >= Len(p) /\ SubSeq(s, 1, Len(p)) = p

DotCount(s) == Cardinality({i \in DOMAIN s : s[i] = "."})

\* C1: sanitize_table_name returns for every input, and what it returns is
\* a valid identifier (non-empty, only [A-Za-z0-9_], a letter or underscore
\* first, within the length bound); for the empty input the result starts
\* with the placeholder token 'table'.
C1_SanitizeValid ==
    spc \in {"once", "twice"} =>
        /\ IsIdentifier(out)
        /\ (raw = <<>> => StartsWith(out, TABLE_TOKEN))

\* A name that starts with a digit and is too long has been sanitized to the
\* placeholder with a suffix.
C1_Witness ==
    /\ spc = "once"
    /\ Len(raw) > IDENTIFIER_MAX_LENGTH
    /\ raw[1] = "7"
    /\ StartsWith(out, TABLE_TOKEN \o <<"_">>)

\* C2: sanitize_table_name is idempotent: sanitizing its own result returns
\* that result, whichever path the first call took.
C2_SanitizeIdempotent == spc = "twice" => out2 = out

\* A name with several dots and a leading underscore has been sanitized twice.
C2_Witness ==
    /\ spc = "twice"
    /\ DotCount(raw) >= 2
    /\ raw[1] = "_"
    /\ out2 = out

\* The name the claim describes: the input cut at its last '.', every
\* character outside [A-Za-z0-9_] turned into '_', '_' put in front of a first
\* character that is neither a letter nor '_', 'table' for an empty result.
ClaimedName(s) ==
    LET dots == {i \in DOMAIN s : s[i] = "."}
        cut == IF dots = {} THEN Len(s)
               ELSE (CHOOSE i \in dots : \A j \in dots : j <= i) - 1
        kept == [i \in 1..cut |->
                    IF s[i] \in AsciiLetters \cup Digits \cup {"_"}
                    THEN s[i] ELSE "_"]
        led == IF kept # <<>> /\ kept[1] \in Digits THEN <<"_">> \o kept
               ELSE kept
    IN  IF led = <<>> THEN TABLE_TOKEN ELSE led

RECURSIVE LeafSeq(_, _, _), LeafSeqOfPairs(_, _), LeafSeqOfItems(_, _, _)

\* The leaves below value v at `path`, in document order, as <<path, value>>.
LeafSeq(v, path, inList) ==
    CASE Tag(v) = "d" -> LeafSeqOfPairs(Payload(v), path)
      [] Tag(v) = "l" /\ ~inList -> LeafSeqOfItems(Payload(v), path, 0)
      [] OTHER -> <<<<path, v>>>>

LeafSeqOfPairs(pairs, path) ==
    IF pairs = <<>> THEN <<>>
    ELSE LeafSeq(Head(pairs)[2], Append(path, <<"k", Head(pairs)[1]>>), FALSE)
         \o LeafSeqOfPairs(Tail(pairs), path)

LeafSeqOfItems(items, path, i) ==
    IF items = <<>> THEN <<>>
    ELSE LeafSeq(Head(items), Append(path, <<"i", IntToStr(i)>>), TRUE)
         \o LeafSeqOfItems(Tail(items), path, i + 1)

RecordLeaves(r) == LeafSeqOfPairs(r, <<>>)

\* The flat key of a path: p + '__' + k for a mapping child (k alone under
\* an empty p), n + '_' + i for element i of a sequence.
RECURSIVE EncodeFrom(_, _)
EncodeFrom(p, steps) ==
    IF steps = <<>> THEN p
    ELSE LET st == Head(steps)
             q == IF st[1] = "k"
                  THEN (IF p = <<>> THEN st[2] ELSE p \o <<"_", "_">> \o st[2])
                  ELSE p \o <<"_">> \o st[2]
         IN  EncodeFrom(q, Tail(steps))

EncodePath(path) == EncodeFrom(<<>>, path)

\* s split at every occurrence of delimiter d, left to right.
RECURSIVE SplitOn(_, _, _)
SplitOn(s, d, cur) ==
    IF s = <<>> THEN <<cur>>
    ELSE IF StartsWith(s, d)
         THEN <<cur>> \o SplitOn(SubSeq(s, Len(d) + 1, Len(s)), d, <<>>)
         ELSE SplitOn(Tail(s), d, Append(cur, Head(s)))

\* One '__' segment read back: a key, then the list indices that follow it.
SegmentSteps(seg) ==
    LET parts == SplitOn(seg, <<"_">>, <<>>)
    IN  [j \in 1..Len(parts) |->
            IF j = 1 THEN <<"k", parts[1]>> ELSE <<"i", parts[j]>>]

RECURSIVE ConcatAll(_)
ConcatAll(ss) == IF ss = <<>> THEN <<>> ELSE Head(ss) \o ConcatAll(Tail(ss))

\* A flat key split by '__' and then by '_' into the path it stands for.
DecodeKey(key) ==
    LET segs == SplitOn(key, <<"_", "_">>, <<>>)
    IN  ConcatAll([j \in 1..Len(segs) |-> SegmentSteps(segs[j])])

C5_KeyPathBijection ==
    fpc = "done" =>
        LET leaves == RecordLeaves(rec)
        IN  /\ \A e \in DOMAIN flat :
                   \E i \in DOMAIN leaves : DecodeKey(flat[e][1]) = leaves[i][1]
            /\ \A i, j \in DOMAIN leaves :
                   i # j => EncodePath(leaves[i][1]) # EncodePath(leaves[j][1])
            /\ Len(flat) = Len(leaves)

(***************************************************************************)
(* Claims about the converters.                                             *)
(***************************************************************************)
\* The valid records of the last JSONL call, flattened, in input order.
FlatRecordsOfCall ==
    LET objs == ObjectsOf(call.content.lines)
    IN  [i \in DOMAIN objs |-> flatten_nested_dict(objs[i], <<>>)]

\* The union of their keys.
FieldSetOfCall ==
    UNION {Keys(FlatRecordsOfCall[i]) : i \in DOMAIN FlatRecordsOfCall}

\* C6: row completeness: after a JSONL ingestion the table has one column
\* per FieldSet key and one row per valid record; every row has exactly
\* |FieldSet| cells, holding the record's own flattened value under each of
\* its keys and null under every FieldSet key the record lacks.
C6_RowCompleteness ==
    call.fmt = "jsonl" /\ call.ok =>
        LET t == store[call.table]
            n == Cardinality(FieldSetOfCall)
        IN  /\ Len(t.cols) = n
            /\ Len(call.order) = n
            /\ {call.order[j] : j \in DOMAIN call.order} = FieldSetOfCall
            /\ Len(t.rows) = Len(FlatRecordsOfCall)
            /\ \A i \in DOMAIN t.rows :
                   /\ Len(t.rows[i]) = n
                   /\ \A j \in DOMAIN call.order :
                          t.rows[i][j] =
                              IF call.order[j] \in Keys(FlatRecordsOfCall[i])
                              THEN Lookup(FlatRecordsOfCall[i], call.order[j])
                              ELSE Null

\* Two records with different keys have been ingested: each row has a null
\* under the other record's key.
C6_Witness ==
    /\ call.fmt = "jsonl"
    /\ call.ok
    /\ Len(store[call.table].cols) = 2
    /\ Len(store[call.table].rows) = 2
    /\ \A i \in {1, 2} :
           \E j, k \in {1, 2} :
               /\ store[call.table].rows[i][j] = Null
               /\ Tag(store[call.table].rows[i][k]) = "s"
    /\ Keys(FlatRecordsOfCall[1]) # Keys(FlatRecordsOfCall[2])

\* C7: a JSONL ingestion succeeds if and only if at least one non-blank line
\* decodes to a JSON object; the row count it returns is the number of such
\* lines; with none, the call fails and creates no table.
C7_JsonlSucceedsIffObject ==
    call.fmt = "jsonl" =>
        /\ call.content.utf8 /\ Len(ObjectsOf(call.content.lines)) >= 1
               => call.ok /\ call.row_count = Len(ObjectsOf(call.content.lines))
        /\ ~call.content.utf8 \/ Len(ObjectsOf(call.content.lines)) = 0
               => ~call.ok /\ store = prev

\* C8: every column of a table an ingestion created is the cleaned form of a
\* field name of the content and satisfies the identifier grammar.
C8_ColumnsAreIdentifiers ==
    call.ok =>
        \A j \in DOMAIN store[call.table].cols :
            /\ store[call.table].cols[j] = CleanColumnName(call.order[j])
            /\ IsIdentifier(store[call.table].cols[j])

\* C9: a JSON ingestion fails when the decoded value is not an array, when
\* the array is empty, and when any element of the array is not an object;
\* such a call adds no row and no column to the store.
C9_JsonRejectsNonObjects ==
    call.fmt = "json"
    /\ (\/ ~call.content.decoded
        \/ Tag(call.content.value) # "l"
        \/ Payload(call.content.value) = <<>>
        \/ \E i \in DOMAIN Payload(call.content.value) :
               Tag(Payload(call.content.value)[i]) # "d")
    => /\ ~call.ok
       /\ \A t \in TableNames : store[t] \in {prev[t], NoTable}

\* An array holding an object and then a scalar has been refused.
C9_Witness ==
    /\ call.fmt = "json"
    /\ ~call.ok
    /\ Tag(call.content.value) = "l"
    /\ Len(Payload(call.content.value)) = 2
    /\ Tag(Payload(call.content.value)[1]) = "d"
    /\ Payload(Payload(call.content.value)[1]) # <<>>
    /\ Tag(Payload(call.content.value)[2]) = "s"

\* The table a call's content alone determines.
TableOfCall ==
    CASE call.fmt = "csv" ->
             Table(CleanColumns(call.content.header), call.content.rows)
      [] call.fmt = "json" ->
             Table(CleanColumns(call.order),
                   [i \in DOMAIN Payload(call.content.value) |->
                       [j \in DOMAIN call.order |->
                           IF HasKey(Payload(Payload(call.content.value)[i]),
                                     call.order[j])
                           THEN Lookup(Payload(Payload(call.content.value)[i]),
                                       call.order[j])
                           ELSE Null]])
      [] call.fmt = "jsonl" ->
             Table(CleanColumns(call.order),
                   [i \in DOMAIN FlatRecordsOfCall |->
                       [j \in DOMAIN call.order |->
                           IF HasKey(FlatRecordsOfCall[i], call.order[j])
                           THEN Lookup(FlatRecordsOfCall[i], call.order[j])
                           ELSE Null]])

\* C10: replace semantics: after a successful call the table under the
\* sanitized name holds exactly that call's columns and rows, whatever was
\* ingested under that name before; and no call changes a table under
\* another name.
C10_ReplaceSemantics ==
    /\ call.ok => store[call.table] = TableOfCall
    /\ call.fmt # "none" =>
           \A t \in TableNames \ {call.table} : store[t] = prev[t]

\* A second ingestion has replaced a table that held other columns, while a
\* table under another name stayed.
C10_Witness ==
    /\ calls = 2
    /\ call.ok
    /\ prev[call.table].exists
    /\ prev[call.table].cols # store[call.table].cols
    /\ Len(prev[call.table].rows) > Len(store[call.table].rows)

(***************************************************************************)
(* Failed calls.                                                            *)
(***************************************************************************)
\* The call raised before any frame was built: while decoding, parsing or
\* discovering the schema.
FailedBeforeMaterialize ==
    CASE call.fmt = "csv" -> ~call.content.parsed
      [] call.fmt = "json" ->
             \/ ~call.content.decoded
             \/ Tag(call.content.value) # "l"
             \/ Payload(call.content.value) = <<>>
      [] call.fmt = "jsonl" ->
             \/ ~call.content.utf8
             \/ Len(ObjectsOf(call.content.lines)) = 0
      [] OTHER -> FALSE

\* C11: a failed ingest call leaves no partial table: after it, the table
\* under the sanitized name is the one from before the call, or is absent,
\* or is the call's whole table; it is never a table the call created with
\* only part of its rows or columns.  A failure while parsing or discovering
\* the schema leaves the whole store as it was.
C11_NoPartialTable ==
    call.fmt # "none" /\ ~call.ok =>
        /\ \/ store[call.table] = prev[call.table]
           \/ store[call.table] = NoTable
           \/ store[call.table] = TableOfCall
        /\ FailedBeforeMaterialize => store = prev

(***************************************************************************)
(* Column order of a JSONL ingestion.                                       *)
(***************************************************************************)
\* The flattened keys of the call's valid records, first seen first.
FirstSeenFieldsOfCall ==
    FirstSeenKeys(<<>>, [i \in DOMAIN FlatRecordsOfCall |->
                            Dict(FlatRecordsOfCall[i])])

\* C12: the columns of the table a JSONL ingestion produced are in the
\* first-seen order of the flattened keys across the input records: a key
\* met in an earlier record, or earlier within a record, comes first.
C12_ColumnsInFirstSeenOrder ==
    call.fmt = "jsonl" /\ call.ok =>
        /\ call.order = FirstSeenFieldsOfCall
        /\ store[call.table].cols = CleanColumns(FirstSeenFieldsOfCall)

(***************************************************************************)
(* The fallback path of sanitize_table_name.                                *)
(***************************************************************************)
\* C13: on the fallback path (the cleaned name fails the grammar check) the
\* result is 'table_' plus a suffix that depends on the raw input alone:
\* another evaluation on the same input, in the same or in another process,
\* returns the same identifier.
C13_FallbackDeterministic ==
    spc = "again" /\ ~IsIdentifier(ClaimedName(raw)) =>
        /\ StartsWith(out, TABLE_TOKEN \o <<"_">>)
        /\ other = out

(***************************************************************************)
(* JSON against JSONL.                                                      *)
(***************************************************************************)
\* The elements of the call's JSON array, one per line of a JSONL upload.
AsJsonl ==
    [utf8 |-> TRUE,
     lines |-> [i \in DOMAIN Payload(call.content.value) |->
                   JsonLine(Payload(call.content.value)[i])]]

\* C14: a JSON array of objects is ingested as the same objects, in the same
\* order, are when given as JSONL lines: the call succeeds exactly when the
\* JSONL ingestion does, and the table has the same flattened columns and
\* the same schema-complete rows (nested mappings and sequences flattened).
C14_JsonSameAsJsonl ==
    /\ call.fmt = "json"
    /\ call.content.decoded
    /\ Tag(call.content.value) = "l"
    /\ Payload(call.content.value) # <<>>
    /\ \A i \in DOMAIN Payload(call.content.value) :
           Tag(Payload(call.content.value)[i]) = "d"
    => \E order \in Orders(collect_all_jsonl_fields(AsJsonl).fields) :
           LET w == to_sql(prev, call.table, CleanColumns(order),
                           JsonlRecords(AsJsonl, order))
           IN  /\ call.ok = w.ok
               /\ w.ok => store[call.table] = w.db[call.table]

(***************************************************************************)
(* Depth of the flattener's result.                                         *)
(***************************************************************************)
\* A string, number, boolean or null.
IsScalarValue(v) == Tag(v) \in {"s", "n"}

\* A record all of whose values are scalar.
IsFlatRecord(r) == \A i \in DOMAIN r : IsScalarValue(r[i][2])

\* C15: every value of flatten_nested_dict's result is a scalar (string,
\* number, boolean or null), also when a sequence of the record holds a
\* sequence; and a record that is flat already is returned unchanged.
C15_FlatResultIsScalar ==
    fpc = "done" =>
        /\ IsFlatRecord(flat)
        /\ IsFlatRecord(rec) => flat = rec

====
